---- MODULE Spec2Model ----
(***************************************************************************)
(* Model of docs/examples/python/basic_usage.py: the Mataresit API client  *)
(* (MataresitAPI._request) and the AdvancedMataresitAPI operations built   *)
(* on it (_request_with_retry, wait_for_processing,                        *)
(* bulk_upload_with_progress).                                             *)
(*                                                                         *)
(* The remote service and the clock are the environment: every HTTP round  *)
(* trip draws its response from a small set, every blocking call lets the  *)
(* clock advance.  `log` is the history of the externally visible calls    *)
(* (session.request and time.sleep) in the order the program makes them.   *)
(***************************************************************************)
EXTENDS Integers, Sequences, FiniteSets, TLC

VARIABLES
    max_retries,    \* AdvancedMataresitAPI.max_retries
    pc,             \* position of the single, blocking caller
    op,             \* the operation that was called
    outcome,        \* what the operation gave its caller: a return or a raise
    log,            \* history of session.request / time.sleep calls
    attempt,        \* _request_with_retry: loop variable
    max_wait,       \* wait_for_processing: argument
    start_time,     \* wait_for_processing: local
    clock,          \* time.time()
    receipts,       \* bulk_upload_with_progress: argument
    batch_size,     \* bulk_upload_with_progress: argument
    i,              \* bulk_upload_with_progress: loop variable
    successful,     \* bulk_upload_with_progress: local list
    failed          \* bulk_upload_with_progress: local list

vars == <<max_retries, pc, op, outcome, log, attempt, max_wait, start_time,
          clock, receipts, batch_size, i, successful, failed>>

retry_vars == <<attempt>>
wait_vars == <<max_wait, start_time>>
bulk_vars == <<receipts, batch_size, i, successful, failed>>

-----------------------------------------------------------------------------
(* Bounds of the model *)

MaxRetries == 4
MaxWait == 5
MaxLatency == 1
MaxOversleep == 1
MaxItems == 5
MaxBatch == 3

-----------------------------------------------------------------------------
(* Values *)

\* Python's None, for the optional string fields
None == "None"

\* MataresitAPIError.status_code when it is None (no HTTP status is 0)
NoStatus == 0

RateLimited == 429

PollInterval == 2

BatchDelay == 1

\* MataresitAPIError(message, status_code, error_code)
MataresitAPIError(message, status_code, error_code) ==
    [message |-> message, status_code |-> status_code, error_code |-> error_code]

Return(value) == [kind |-> "return", value |-> value]

Raise(error) == [kind |-> "raise", error |-> error]

NoOutcome == [kind |-> "none"]

\* dict.get(key, default)
Get(d, key, default) == IF key \in DOMAIN d THEN d[key] ELSE default

-----------------------------------------------------------------------------
(* The environment: what session.request can give *)

\* the transport failed: session.request raised a requests.RequestException
TransportFailure == [failed |-> TRUE, detail |-> "ConnectionError"]

\* an HTTP response whose body is JSON
JsonResponse(status_code, body) ==
    [failed |-> FALSE, status_code |-> status_code, parseable |-> TRUE, body |-> body]

\* an HTTP response whose body is not JSON (an HTML error page, an empty body)
NonJsonResponse(status_code) ==
    [failed |-> FALSE, status_code |-> status_code, parseable |-> FALSE]

StatusCodes == {200, RateLimited, 500}

\* requests.Response.ok: the status is below 400
ok(response) == response.status_code < 400

\* error envelopes of the service: a message and a code, or neither
ErrorBodies(status_code) ==
    { [message |-> IF status_code = RateLimited THEN "Rate limit exceeded"
                                                ELSE "Internal error",
       code |-> IF status_code = RateLimited THEN "RATE_LIMITED" ELSE "INTERNAL"],
      [success |-> FALSE] }

\* every response that makes _request raise
ErrorResponses ==
    {TransportFailure}
    \cup {NonJsonResponse(s) : s \in StatusCodes}
    \cup UNION {{JsonResponse(s, b) : b \in ErrorBodies(s)} : s \in StatusCodes \ {200}}

\* success envelopes carrying one of the payloads `datas`: on success the
\* service sends a JSON object with a `data` entry (what every caller indexes)
SuccessResponses(datas) == {JsonResponse(200, [success |-> TRUE, data |-> d]) : d \in datas}

-----------------------------------------------------------------------------
(* MataresitAPI._request *)

_request_returns_data_field(response) ==
    IF response.failed
    THEN Raise(MataresitAPIError("Request failed: ConnectionError", NoStatus, None))
    ELSE IF ~response.parseable
    THEN Raise(MataresitAPIError("Request failed: JSONDecodeError", NoStatus, None))
    ELSE IF ~ok(response)
    THEN Raise(MataresitAPIError(Get(response.body, "message", "API request failed"),
                                 response.status_code,
                                 Get(response.body, "code", None)))
    ELSE Return(response.body.data)

\* response = self.session.request(...); data = response.json();
\* if not response.ok: raise MataresitAPIError(...); return data
\* A RequestException (the transport's, or response.json()'s JSONDecodeError,
\* which is one in requests >= 2.27) is wrapped into a MataresitAPIError
\* without status code.  The body is parsed before the status is looked at.
_request(response) ==
    IF response.failed
    THEN Raise(MataresitAPIError("Request failed: ConnectionError", NoStatus, None))
    ELSE IF ~response.parseable
    THEN Raise(MataresitAPIError("Request failed: JSONDecodeError", NoStatus, None))
    ELSE IF ~ok(response)
    THEN Raise(MataresitAPIError(Get(response.body, "message", "API request failed"),
                                 response.status_code,
                                 Get(response.body, "code", None)))
    ELSE Return(response.body)

\* log entries
RequestEvent(response, result) ==
    [ev |-> "request", response |-> response, result |-> result]

SleepEvent(seconds) == [ev |-> "sleep", seconds |-> seconds]

\* payloads of a receipt resource
ReceiptDatas ==
    {[id |-> "r1", processingStatus |-> s] : s \in {"pending", "complete", "failed"}}
    \cup {[id |-> "r1"]}

\* a direct call of _request (health_check, get_receipt, ... outside any wrapper)
Call_request ==
    /\ pc = "idle"
    /\ \E response \in ErrorResponses \cup SuccessResponses(ReceiptDatas) :
        /\ outcome' = _request(response)
        /\ log' = <<RequestEvent(response, _request(response))>>
    /\ op' = "_request"
    /\ pc' = "done"
    /\ UNCHANGED <<max_retries, retry_vars, wait_vars, clock, bulk_vars>>

-----------------------------------------------------------------------------
(* AdvancedMataresitAPI._request_with_retry *)

Call_request_with_retry ==
    /\ pc = "idle"
    /\ op' = "_request_with_retry"
    /\ attempt' = 1
    /\ pc' = "retry_loop"
    /\ UNCHANGED <<max_retries, outcome, log, wait_vars, clock, bulk_vars>>

ShouldRetry_any_error(e, att) == att < max_retries

\* e.status_code == 429 and attempt < self.max_retries
ShouldRetry(e, att) == e.status_code = RateLimited /\ att < max_retries

Backoff_attempt_from_zero(att) == 2 ^ (att - 1)

\* delay = 2 ** attempt
Backoff(att) == 2 ^ att

\* one iteration of: for attempt in range(1, self.max_retries + 1)
RetryAttempt ==
    /\ pc = "retry_loop"
    /\ attempt <= max_retries
    /\ \E response \in ErrorResponses \cup SuccessResponses(ReceiptDatas) :
        LET result == _request(response)
            called == Append(log, RequestEvent(response, result))
        IN  IF result.kind = "return"
            THEN /\ outcome' = result
                 /\ log' = called
                 /\ pc' = "done"
                 /\ UNCHANGED attempt
            ELSE IF ShouldRetry(result.error, attempt)
            THEN /\ log' = Append(called, SleepEvent(Backoff(attempt)))
                 /\ attempt' = attempt + 1
                 /\ UNCHANGED <<outcome, pc>>
            ELSE /\ outcome' = result
                 /\ log' = called
                 /\ pc' = "done"
                 /\ UNCHANGED attempt
    /\ UNCHANGED <<max_retries, op, wait_vars, clock, bulk_vars>>

\* the loop ran out: raise MataresitAPIError("Max retries exceeded")
RetryExhausted ==
    /\ pc = "retry_loop"
    /\ attempt > max_retries
    /\ outcome' = Raise(MataresitAPIError("Max retries exceeded", NoStatus, None))
    /\ pc' = "done"
    /\ UNCHANGED <<max_retries, op, log, attempt, wait_vars, clock, bulk_vars>>

-----------------------------------------------------------------------------
(* AdvancedMataresitAPI.wait_for_processing *)

\* start_time = time.time()
Call_wait_for_processing ==
    /\ pc = "idle"
    /\ \E mw \in -1..MaxWait : max_wait' = mw
    /\ start_time' = clock
    /\ op' = "wait_for_processing"
    /\ pc' = "wait_loop"
    /\ UNCHANGED <<max_retries, outcome, log, retry_vars, clock, bulk_vars>>

\* time.time() - start_time
Elapsed == clock - start_time

WithinMaxWait_inclusive == Elapsed <= max_wait

\* the loop condition: time.time() - start_time < max_wait
WithinMaxWait == Elapsed < max_wait

\* status = receipt['data'].get('processingStatus', 'pending')
ProcessingStatus(receipt) == Get(receipt.data, "processingStatus", "pending")

\* status == 'complete'
IsComplete(status) == status = "complete"

IsFailed_wrong_literal(status) == status = "error"

\* status == 'failed'
IsFailed(status) == status = "failed"

CompleteResult_payload_only(receipt) == Return(receipt.data)

\* return receipt
CompleteResult(receipt) == Return(receipt)

\* log entry of a status check: the elapsed time at which it starts
PollEvent(at, response, result) ==
    [ev |-> "request", at |-> at, response |-> response, result |-> result]

\* one iteration of the while loop: get_receipt, then return, raise or sleep.
\* The round trip takes d, time.sleep(2) takes 2 + o.
WaitIteration ==
    /\ pc = "wait_loop"
    /\ WithinMaxWait
    /\ \E response \in ErrorResponses \cup SuccessResponses(ReceiptDatas),
          d \in 0..MaxLatency, o \in 0..MaxOversleep :
        LET result == _request(response)
            called == Append(log, PollEvent(Elapsed, response, result))
        IN  IF result.kind = "raise"
            THEN /\ outcome' = result
                 /\ log' = called
                 /\ clock' = clock + d
                 /\ pc' = "done"
            ELSE IF IsComplete(ProcessingStatus(result.value))
            THEN /\ outcome' = CompleteResult(result.value)
                 /\ log' = called
                 /\ clock' = clock + d
                 /\ pc' = "done"
            ELSE IF IsFailed(ProcessingStatus(result.value))
            THEN /\ outcome' = Raise(MataresitAPIError("Receipt processing failed",
                                                       NoStatus, None))
                 /\ log' = called
                 /\ clock' = clock + d
                 /\ pc' = "done"
            ELSE /\ log' = Append(called, SleepEvent(PollInterval))
                 /\ clock' = clock + d + PollInterval + o
                 /\ UNCHANGED <<outcome, pc>>
    /\ UNCHANGED <<max_retries, op, retry_vars, wait_vars, bulk_vars>>

\* the loop condition failed: raise MataresitAPIError("Receipt processing timeout")
WaitTimeout ==
    /\ pc = "wait_loop"
    /\ ~WithinMaxWait
    /\ outcome' = Raise(MataresitAPIError("Receipt processing timeout", NoStatus, None))
    /\ pc' = "done"
    /\ UNCHANGED <<max_retries, op, log, retry_vars, wait_vars, clock, bulk_vars>>

-----------------------------------------------------------------------------
(* AdvancedMataresitAPI.bulk_upload_with_progress *)

Min(a, b) == IF a < b THEN a ELSE b

\* total_receipts = len(receipts)
total_receipts == Len(receipts)

\* batch = receipts[i:i + batch_size]
Batch(from) == SubSeq(receipts, from + 1, Min(from + batch_size, total_receipts))

\* batch_num = (i // batch_size) + 1
batch_num(from) == (from \div batch_size) + 1

DelayAfter_every_full_chunk(from) ==
    IF from + batch_size <= total_receipts THEN <<SleepEvent(BatchDelay)>> ELSE <<>>

\* if i + batch_size < total_receipts: time.sleep(1)
DelayAfter(from) ==
    IF from + batch_size < total_receipts THEN <<SleepEvent(BatchDelay)>> ELSE <<>>

ChunkFailure_per_receipt(e, from) ==
    [k \in 1..Len(Batch(from)) |-> [error |-> e.message, batch |-> batch_num(from)]]

\* failed.extend([{'error': e.message, 'batch': batch_num}])
ChunkFailure(e, from) == <<[error |-> e.message, batch |-> batch_num(from)]>>

\* the service's answer to POST /receipts/batch: the first k receipts of the
\* batch created, the others rejected one by one
BatchData(batch, k) ==
    [created |-> [j \in 1..k |-> [id |-> batch[j]]],
     errors |-> [j \in 1..(Len(batch) - k) |->
                    [error |-> "Validation failed", receipt |-> batch[k + j]]]]

BatchErrorResponses ==
    {TransportFailure, NonJsonResponse(500),
     JsonResponse(RateLimited, [message |-> "Rate limit exceeded", code |-> "RATE_LIMITED"]),
     JsonResponse(500, [success |-> FALSE])}

BatchResponses(batch) ==
    BatchErrorResponses
    \cup SuccessResponses({BatchData(batch, k) : k \in 0..Len(batch)})

\* log entry of a create_receipts_batch call: the receipts it sends
BatchEvent(batch, response, result) ==
    [ev |-> "request", receipts |-> batch, response |-> response, result |-> result]

Call_bulk_upload_with_progress ==
    /\ pc = "idle"
    /\ \E n \in 0..MaxItems : receipts' = [k \in 1..n |-> k]
    /\ \E b \in 1..MaxBatch : batch_size' = b
    /\ i' = 0
    /\ successful' = <<>>
    /\ failed' = <<>>
    /\ op' = "bulk_upload_with_progress"
    /\ pc' = "bulk_loop"
    /\ UNCHANGED <<max_retries, outcome, log, retry_vars, wait_vars, clock>>

\* one iteration of: for i in range(0, total_receipts, batch_size)
BulkChunk ==
    /\ pc = "bulk_loop"
    /\ i < total_receipts
    /\ \E response \in BatchResponses(Batch(i)) :
        LET result == _request(response)
        IN  /\ IF result.kind = "return"
               THEN /\ successful' = successful \o result.value.data.created
                    /\ failed' = failed \o result.value.data.errors
               ELSE /\ failed' = failed \o ChunkFailure(result.error, i)
                    /\ UNCHANGED successful
            /\ log' = Append(log, BatchEvent(Batch(i), response, result)) \o DelayAfter(i)
    /\ i' = i + batch_size
    /\ UNCHANGED <<max_retries, pc, op, outcome, retry_vars, wait_vars, clock,
                   receipts, batch_size>>

\* the loop is over: return the counts and the two lists
BulkReturn ==
    /\ pc = "bulk_loop"
    /\ i >= total_receipts
    /\ outcome' = Return([total |-> total_receipts,
                          successful |-> Len(successful),
                          failed |-> Len(failed),
                          successful_receipts |-> successful,
                          failed_receipts |-> failed])
    /\ pc' = "done"
    /\ UNCHANGED <<max_retries, op, log, retry_vars, wait_vars, clock, bulk_vars>>

-----------------------------------------------------------------------------

Init ==
    /\ max_retries \in 0..MaxRetries
    /\ pc = "idle"
    /\ op = "none"
    /\ outcome = NoOutcome
    /\ log = <<>>
    /\ attempt = 0
    /\ max_wait = 0
    /\ start_time = 0
    /\ clock = 0
    /\ receipts = <<>>
    /\ batch_size = 1
    /\ i = 0
    /\ successful = <<>>
    /\ failed = <<>>

Next ==
    \/ Call_request
    \/ Call_request_with_retry
    \/ RetryAttempt
    \/ RetryExhausted
    \/ Call_wait_for_processing
    \/ WaitIteration
    \/ WaitTimeout
    \/ Call_bulk_upload_with_progress
    \/ BulkChunk
    \/ BulkReturn

Spec == Init /\ [][Next]_vars

\* wait_for_processing alone, run by a caller that keeps running: the program is
\* sequential and every blocking call (the round trip, time.sleep) returns
WaitNext ==
    \/ Call_wait_for_processing
    \/ WaitIteration
    \/ WaitTimeout

FairSpec == Init /\ [][WaitNext]_vars /\ WF_vars(WaitNext)

-----------------------------------------------------------------------------
(* Reading the history *)

IsRequest(e) == e.ev = "request"

IsSleep(e) == e.ev = "sleep"

\* the round trips made so far, in order
Requests == SelectSeq(log, IsRequest)

\* the delays made so far, in order
Sleeps == SelectSeq(log, IsSleep)

\* the response was an HTTP response with a success status and a JSON body
Succeeded(response) == ~response.failed /\ response.parseable /\ ok(response)

\* the call failed with a status-429 error
RateLimitFailure(result) ==
    result.kind = "raise" /\ result.error.status_code = RateLimited

AllRateLimited(reqs) == \A j \in DOMAIN reqs : RateLimitFailure(reqs[j].result)

Front(s) == SubSeq(s, 1, Len(s) - 1)

Last(s) == s[Len(s)]

-----------------------------------------------------------------------------
(* MataresitAPI._request *)

\* C2, as stated: for every successful call of the request executor the value
\* returned to the caller equals the `data` field of the parsed response body.
C2_ReturnsDataField ==
    \A j \in DOMAIN Requests :
        Succeeded(Requests[j].response) =>
            Requests[j].result = Return(Requests[j].response.body.data)

\* C2, amended: for every successful call of the request executor the value
\* returned to the caller is the whole parsed response body (the envelope);
\* the payload is that value's `data` field.
C2_ReturnsParsedBody ==
    /\ \A j \in DOMAIN Requests :
        Succeeded(Requests[j].response) =>
            /\ Requests[j].result = Return(Requests[j].response.body)
            /\ Requests[j].result.value.data = Requests[j].response.body.data
    /\ (op = "_request" /\ pc = "done") => outcome = Requests[1].result

C2_Witness ==
    /\ op = "_request"
    /\ pc = "done"
    /\ Succeeded(Requests[1].response)
    /\ outcome = Return([success |-> TRUE,
                          data |-> [id |-> "r1", processingStatus |-> "complete"]])

\* C3: for every HTTP response whose status is outside the success range,
\* whatever its body (a body that is not JSON included), _request fails with a
\* MataresitAPIError whose status_code is the response's status code.
C3_ErrorCarriesResponseStatus ==
    \A j \in DOMAIN Requests :
        (~Requests[j].response.failed /\ ~ok(Requests[j].response)) =>
            /\ Requests[j].result.kind = "raise"
            /\ Requests[j].result.error.status_code = Requests[j].response.status_code

-----------------------------------------------------------------------------
(* AdvancedMataresitAPI._request_with_retry *)

\* C1: with max_retries = N >= 1 and every call of the request executor failing
\* with a status-429 error, _request_with_retry makes exactly N attempts and
\* then fails with the generic "Max retries exceeded" error, not the 429 error.
C1_ExhaustionRaisesMaxRetries ==
    (op = "_request_with_retry" /\ pc = "done" /\ max_retries >= 1
        /\ AllRateLimited(Requests)) =>
            /\ Len(Requests) = max_retries
            /\ outcome = Raise(MataresitAPIError("Max retries exceeded", NoStatus, None))

\* the history of k rate-limited attempts, each followed by its delay
RECURSIVE RateLimitedPrefix(_, _)
RateLimitedPrefix(reqs, k) ==
    IF k = 0 THEN <<>>
    ELSE RateLimitedPrefix(reqs, k - 1) \o <<reqs[k], SleepEvent(2 ^ k)>>

\* C4: when the first k < max_retries calls fail with status 429 and call k+1
\* succeeds, _request_with_retry makes exactly k+1 attempts and k delays, of
\* 2^1, 2^2, ..., 2^k, each between the failed attempt and the next one, and
\* returns the result of the successful call.  (While fewer than max_retries
\* calls have all failed with 429 the wrapper is still trying.)
C4_RetrySucceedsAfterRateLimits ==
    op = "_request_with_retry" =>
        /\ (AllRateLimited(Requests) /\ Len(Requests) < max_retries) =>
            /\ pc = "retry_loop"
            /\ attempt = Len(Requests) + 1
            /\ log = RateLimitedPrefix(Requests, Len(Requests))
        /\ (Requests # <<>> /\ AllRateLimited(Front(Requests))
                /\ Last(Requests).result.kind = "return") =>
            /\ pc = "done"
            /\ Len(Requests) <= max_retries
            /\ log = Append(RateLimitedPrefix(Requests, Len(Requests) - 1), Last(Requests))
            /\ outcome = Last(Requests).result
            /\ outcome = Return(Last(Requests).response.body)

C4_Witness ==
    /\ op = "_request_with_retry"
    /\ pc = "done"
    /\ max_retries = 3
    /\ Len(Requests) = 3
    /\ AllRateLimited(Front(Requests))
    /\ outcome.kind = "return"
    /\ Sleeps = <<SleepEvent(2), SleepEvent(4)>>

\* C5: an attempt that fails with an error whose status code is not 429 (a
\* transport error without status code included) ends _request_with_retry: that
\* same error goes to the caller, no delay and no attempt follows it, however
\* many attempts remain.
C5_OtherErrorsPropagate ==
    op = "_request_with_retry" =>
        \A j \in DOMAIN log :
            (IsRequest(log[j]) /\ log[j].result.kind = "raise"
                /\ log[j].result.error.status_code # RateLimited) =>
                    /\ j = Len(log)
                    /\ pc = "done"
                    /\ outcome = log[j].result

C5_Witness ==
    /\ op = "_request_with_retry"
    /\ pc = "done"
    /\ Len(Requests) = 2
    /\ max_retries - Len(Requests) >= 2
    /\ RateLimitFailure(Requests[1].result)
    /\ outcome = Raise(MataresitAPIError("Request failed: ConnectionError", NoStatus, None))
    /\ Last(log) = Last(Requests)

-----------------------------------------------------------------------------
(* AdvancedMataresitAPI.wait_for_processing *)

\* what a status check observed: the processing status the service sent,
\* "absent" when the receipt carries none, "error" when the call failed
Observed(e) ==
    IF Succeeded(e.response)
    THEN Get(e.response.body.data, "processingStatus", "absent")
    ELSE "error"

AllPending(reqs) == \A j \in DOMAIN reqs : Observed(reqs[j]) \in {"pending", "absent"}

\* the history of k status checks, each followed by the interval wait
RECURSIVE PendingPrefix(_, _)
PendingPrefix(reqs, k) ==
    IF k = 0 THEN <<>>
    ELSE PendingPrefix(reqs, k - 1) \o <<reqs[k], SleepEvent(2)>>

\* C6: as soon as a status check observes `failed`, wait_for_processing fails
\* with the processing-failed error; no status check and no interval wait
\* follows that observation.
C6_FailedStatusIsTerminal ==
    op = "wait_for_processing" =>
        \A j \in DOMAIN log :
            (IsRequest(log[j]) /\ Observed(log[j]) = "failed") =>
                /\ j = Len(log)
                /\ pc = "done"
                /\ outcome = Raise(MataresitAPIError("Receipt processing failed",
                                                     NoStatus, None))

C6_Witness ==
    /\ op = "wait_for_processing"
    /\ pc = "done"
    /\ Len(Requests) = 2
    /\ Observed(Requests[1]) = "pending"
    /\ Observed(Requests[2]) = "failed"
    /\ Elapsed < max_wait
    /\ Last(log) = Last(Requests)

\* C7, the safety part: no status check starts once the elapsed time is
\* >= max_wait, and when every status check observed `pending` (or no status)
\* the operation ends in the timeout error, never in a payload.
C7_TimeoutSafety ==
    op = "wait_for_processing" =>
        /\ \A j \in DOMAIN Requests : Requests[j].at < max_wait
        /\ (pc = "done" /\ AllPending(Requests)) =>
            outcome = Raise(MataresitAPIError("Receipt processing timeout",
                                              NoStatus, None))
        /\ (pc = "wait_loop" /\ AllPending(Requests) /\ Elapsed >= max_wait) =>
            ENABLED WaitTimeout /\ ~ENABLED WaitIteration

\* C7: with any max_wait (max_wait <= 0 included), wait_for_processing whose
\* status checks all observe `pending` (or no status) always terminates, by
\* failing with the timeout error; no status check starts once the elapsed
\* time is >= max_wait, and no payload is returned.
C7_PendingEndsInTimeout ==
    /\ []C7_TimeoutSafety
    /\ (pc = "wait_loop") ~>
            (pc = "done" /\ (AllPending(Requests) => outcome.kind = "raise"))

C7_Witness ==
    /\ op = "wait_for_processing"
    /\ pc = "done"
    /\ Len(Requests) >= 2
    /\ AllPending(Requests)
    /\ outcome = Raise(MataresitAPIError("Receipt processing timeout", NoStatus, None))

\* C8: when the status checks observe `pending` n times and then `complete`
\* (the n interval waits of 2 having fitted within max_wait),
\* wait_for_processing makes exactly n+1 status checks and n interval waits,
\* one after each `pending` and none after `complete`, and returns the
\* response of the check that observed `complete`.
C8_CompleteAfterPending ==
    op = "wait_for_processing" =>
        /\ (AllPending(Requests) /\ pc = "wait_loop") =>
            log = PendingPrefix(Requests, Len(Requests))
        /\ (Requests # <<>> /\ AllPending(Front(Requests))
                /\ Observed(Last(Requests)) = "complete") =>
            /\ pc = "done"
            /\ log = Append(PendingPrefix(Requests, Len(Requests) - 1), Last(Requests))
            /\ Len(Sleeps) = Len(Requests) - 1
            /\ 2 * Len(Sleeps) <= Last(Requests).at
            /\ Last(Requests).at < max_wait
            /\ outcome = Return(Last(Requests).response.body)

C8_Witness ==
    /\ op = "wait_for_processing"
    /\ pc = "done"
    /\ Len(Requests) = 3
    /\ AllPending(Front(Requests))
    /\ Observed(Last(Requests)) = "complete"
    /\ Sleeps = <<SleepEvent(2), SleepEvent(2)>>
    /\ outcome.kind = "return"

-----------------------------------------------------------------------------
(* AdvancedMataresitAPI.bulk_upload_with_progress *)

\* ceil(n / b)
CeilDiv(n, b) == IF n % b = 0 THEN n \div b ELSE (n \div b) + 1

\* the k-th chunk of the input, counted from 1
Chunk(k) ==
    SubSeq(receipts, (k - 1) * batch_size + 1, Min(k * batch_size, Len(receipts)))

\* what the first k batch-create calls must have put in the failure list
RECURSIVE ExpectedFailed(_, _)
ExpectedFailed(reqs, k) ==
    IF k = 0 THEN <<>>
    ELSE ExpectedFailed(reqs, k - 1)
            \o (IF reqs[k].result.kind = "raise"
                THEN <<[error |-> reqs[k].result.error.message, batch |-> k]>>
                ELSE reqs[k].response.body.data.errors)

\* what the first k batch-create calls must have put in the success list
RECURSIVE ExpectedSuccessful(_, _)
ExpectedSuccessful(reqs, k) ==
    IF k = 0 THEN <<>>
    ELSE ExpectedSuccessful(reqs, k - 1)
            \o (IF reqs[k].result.kind = "raise"
                THEN <<>>
                ELSE reqs[k].response.body.data.created)

\* the receipts the first k batch-create calls sent, in order
RECURSIVE Sent(_, _)
Sent(reqs, k) == IF k = 0 THEN <<>> ELSE Sent(reqs, k - 1) \o reqs[k].receipts

\* the entries of the failure list that stand for chunk k as a whole
ChunkEntries(k) ==
    {m \in DOMAIN failed : "batch" \in DOMAIN failed[m] /\ failed[m].batch = k}

\* C9: every chunk is submitted by exactly one batch-create call whatever
\* became of the earlier chunks; a chunk whose call fails with an API error
\* (a 429 included, which is not retried) adds exactly one entry to the
\* failure list and nothing to the success list, the later chunks are still
\* sent, and the operation returns a result, it does not raise.
C9_ChunkFailureIsolated ==
    op = "bulk_upload_with_progress" =>
        /\ outcome.kind # "raise"
        /\ \A k \in DOMAIN Requests : Requests[k].receipts = Chunk(k)
        /\ i = Len(Requests) * batch_size
        /\ (Len(Requests) < CeilDiv(Len(receipts), batch_size)) => pc = "bulk_loop"
        /\ failed = ExpectedFailed(Requests, Len(Requests))
        /\ successful = ExpectedSuccessful(Requests, Len(Requests))
        /\ \A k \in DOMAIN Requests :
            Cardinality(ChunkEntries(k)) =
                IF Requests[k].result.kind = "raise" THEN 1 ELSE 0
        /\ pc = "done" =>
            /\ Len(Requests) = CeilDiv(Len(receipts), batch_size)
            /\ outcome.kind = "return"
            /\ outcome.value.failed_receipts = failed
            /\ outcome.value.successful_receipts = successful

C9_Witness ==
    /\ op = "bulk_upload_with_progress"
    /\ pc = "done"
    /\ Len(Requests) = 3
    /\ batch_size = 2
    /\ RateLimitFailure(Requests[1].result)
    /\ Requests[2].result.kind = "return"
    /\ Requests[3].result.kind = "raise"
    /\ Len(failed) = 2
    /\ Len(successful) = 2
    /\ outcome.kind = "return"

\* C10: for n receipts and batch size b >= 1 the operation sends exactly
\* ceil(n/b) chunks, in input order, each of b receipts except possibly the
\* last, together every receipt exactly once; the fixed delay follows every
\* chunk except the last (ceil(n/b) - 1 delays for n > 0, none for n = 0),
\* whether the chunks succeed or fail.
C10_ChunkingAndDelays ==
    op = "bulk_upload_with_progress" =>
        LET n == Len(receipts)
            chunks == CeilDiv(n, batch_size)
            sent == Len(Requests)
        IN  /\ sent <= chunks
            /\ \A k \in 1..sent :
                /\ IsRequest(log[2 * k - 1])
                /\ k < chunks => log[2 * k] = SleepEvent(1)
                /\ Len(Requests[k].receipts) =
                        IF k < chunks THEN batch_size ELSE n - (chunks - 1) * batch_size
                /\ Len(Requests[k].receipts) \in 1..batch_size
            /\ Len(Sleeps) = IF sent = chunks /\ n > 0 THEN chunks - 1 ELSE sent
            /\ Len(log) = sent + Len(Sleeps)
            /\ Sent(Requests, sent) = SubSeq(receipts, 1, Min(sent * batch_size, n))
            /\ pc = "done" =>
                /\ sent = chunks
                /\ Sent(Requests, sent) = receipts
                /\ Len(Sleeps) = IF n = 0 THEN 0 ELSE chunks - 1

C10_Witness ==
    /\ op = "bulk_upload_with_progress"
    /\ pc = "done"
    /\ Len(receipts) = 5
    /\ batch_size = 2
    /\ Len(Requests) = 3
    /\ Len(Last(Requests).receipts) = 1
    /\ Requests[2].result.kind = "raise"
    /\ log[2] = SleepEvent(1)
    /\ log[4] = SleepEvent(1)
    /\ Len(log) = 5

====
